---- MODULE Spec2Model ----
(***************************************************************************)
(* Model of roms/source/hello world.c: main() prints a prompt, waits on    *)
(* the joypad for START with waitpad(J_START), and prints a second line.   *)
(*                                                                         *)
(* The output surface is the stream of characters handed to the console    *)
(* by printf, one character per step.  The joypad is the 8-bit key state   *)
(* that joypad() returns; buttons are pressed and released by the player   *)
(* at any moment, interleaved with the program's steps.  waitpad, joypad,  *)
(* printf and J_START come from the GBDK headers the file includes, whose  *)
(* code is not part of this repository: waitpad(mask) is modelled by its   *)
(* documented behaviour, the polling loop that samples joypad() until      *)
(* (keys & mask) is non-zero, and J_START by its value in gb/gb.h, 0x80.   *)
(***************************************************************************)
EXTENDS Integers, Sequences, FiniteSets

(* ---------------------------- bounds ----------------------------------- *)

\* Number of joypad buttons the player operates, the first ones of
\* ButtonOrder.  The remaining buttons stay released.
NumButtons == 4

\* The count of samples taken by waitpad saturates at this value.
MaxSamples == 4

(* ------------------------ joypad key masks ----------------------------- *)

J_START == 128

\* keys & mask on 8-bit values, computed bit by bit.
RECURSIVE BitAndFrom(_, _, _)
BitAndFrom(a, b, bit) ==
    IF bit = 0 THEN 0
    ELSE (IF (a \div bit) % 2 = 1 /\ (b \div bit) % 2 = 1 THEN bit ELSE 0)
         + BitAndFrom(a, b, bit \div 2)

BitAnd(a, b) == BitAndFrom(a % 256, b % 256, 128)

\* The bits of the eight buttons, in the order in which the player's buttons
\* are taken: START, SELECT, A, RIGHT, B, DOWN, UP, LEFT.
ButtonOrder == << 128, 64, 16, 1, 32, 8, 4, 2 >>

\* The bits of the buttons the player operates.
Buttons == { ButtonOrder[k] : k \in 1 .. NumButtons }

\* All key states that can be built from the operated buttons.
RECURSIVE SumSet(_)
SumSet(S) == IF S = {} THEN 0
             ELSE LET x == CHOOSE y \in S : TRUE IN x + SumSet(S \ {x})

KeyStates == { SumSet(S) : S \in SUBSET Buttons }

(* ------------------------- the program text ---------------------------- *)

\* printf("Press 'start'...\n\n");
FirstMessageShort ==
    << "P", "r", "e", "s", "s", " ", "'", "s", "t", "a", "r", "t", "'",
       ".", ".", ".", "\n" >>

FirstMessage ==
    << "P", "r", "e", "s", "s", " ", "'", "s", "t", "a", "r", "t", "'",
       ".", ".", ".", "\n", "\n" >>

\* printf("You win!\n");
SecondMessageTwice ==
    << "Y", "o", "u", " ", "w", "i", "n", "!", "\n",
       "Y", "o", "u", " ", "w", "i", "n", "!", "\n" >>

SecondMessageNoNewline == << "Y", "o", "u", " ", "w", "i", "n", "!" >>

SecondMessage == << "Y", "o", "u", " ", "w", "i", "n", "!", "\n" >>

\* waitpad(J_START): the mask main passes to waitpad.
WaitMaskAnyOther == 255 - J_START

\* The SELECT bit, one below START.
WaitMaskSelect == J_START \div 2

WaitMask == J_START

\* The loop test of waitpad: leave the loop when a masked key is down.
WaitEndsAlways(keys, mask) == TRUE

WaitEndsOnRelease(keys, mask) == BitAnd(keys, mask) = 0

WaitEnds(keys, mask) == BitAnd(keys, mask) # 0

\* The statement that follows each statement of main.
AfterFirstPrintfSkipWait == "printf2"

AfterFirstPrintf == "waitpad"

(* ------------------------------ state ---------------------------------- *)

VARIABLES
    pc,         \* the statement main is at: printf1, waitpad, printf2, return, done
    i,          \* characters of the current printf's string already emitted
    out,        \* the output surface: the characters emitted so far
    joypad,     \* the key state joypad() returns right now
    lastKeys,   \* the value of the last joypad() sample taken by waitpad
    nsamples,   \* how many samples waitpad has taken (saturating)
    earlyPress  \* START was down at some moment while the first printf ran

vars == << pc, i, out, joypad, lastKeys, nsamples, earlyPress >>

StartHeld == BitAnd(joypad, J_START) # 0

Init ==
    /\ pc = "printf1"
    /\ i = 0
    /\ out = << >>
    /\ joypad \in KeyStates
    /\ lastKeys = 0
    /\ nsamples = 0
    /\ earlyPress = (BitAnd(joypad, J_START) # 0)

(* ------------------------- the player's steps -------------------------- *)

Press(b) ==
    /\ BitAnd(joypad, b) = 0
    /\ joypad' = joypad + b
    /\ earlyPress' = (earlyPress \/ (pc = "printf1" /\ b = J_START))
    /\ UNCHANGED << pc, i, out, lastKeys, nsamples >>

Release(b) ==
    /\ BitAnd(joypad, b) # 0
    /\ joypad' = joypad - b
    /\ UNCHANGED << pc, i, out, lastKeys, nsamples, earlyPress >>

(* ------------------------- the program's steps ------------------------- *)

\* One character of printf("Press 'start'...\n\n").
PutChar1 ==
    /\ pc = "printf1"
    /\ out' = Append(out, FirstMessage[i + 1])
    /\ IF i + 1 = Len(FirstMessage)
          THEN pc' = AfterFirstPrintf /\ i' = 0
          ELSE pc' = pc /\ i' = i + 1
    /\ UNCHANGED << joypad, lastKeys, nsamples, earlyPress >>

\* One iteration of the loop of waitpad(J_START).
WaitSample ==
    /\ pc = "waitpad"
    /\ lastKeys' = joypad
    /\ nsamples' = IF nsamples < MaxSamples THEN nsamples + 1 ELSE nsamples
    /\ pc' = IF WaitEnds(joypad, WaitMask) THEN "printf2" ELSE "waitpad"
    /\ UNCHANGED << i, out, joypad, earlyPress >>

\* One character of printf("You win!\n").
PutChar2 ==
    /\ pc = "printf2"
    /\ out' = Append(out, SecondMessage[i + 1])
    /\ IF i + 1 = Len(SecondMessage)
          THEN pc' = "return" /\ i' = 0
          ELSE pc' = pc /\ i' = i + 1
    /\ UNCHANGED << joypad, lastKeys, nsamples, earlyPress >>

\* main returns.
Return ==
    /\ pc = "return"
    /\ pc' = "done"
    /\ UNCHANGED << i, out, joypad, lastKeys, nsamples, earlyPress >>

Main == PutChar1 \/ WaitSample \/ PutChar2 \/ Return

Next ==
    \/ \E b \in Buttons : Press(b)
    \/ \E b \in Buttons : Release(b)
    \/ PutChar1
    \/ WaitSample
    \/ PutChar2
    \/ Return

Spec == Init /\ [][Next]_vars

\* The program keeps being scheduled: main is the only thread and the
\* processor never stops executing it.
FairSpec == Init /\ [][Next]_vars /\ WF_vars(Main)

TypeOK ==
    /\ pc \in { "printf1", "waitpad", "printf2", "return", "done" }
    /\ i \in 0 .. 17
    /\ joypad \in KeyStates
    /\ lastKeys \in KeyStates
    /\ nsamples \in 0 .. MaxSamples
    /\ earlyPress \in BOOLEAN

(* ------------------- the expected texts of the contract ---------------- *)

ExpectedFirst ==
    << "P", "r", "e", "s", "s", " ", "'", "s", "t", "a", "r", "t", "'",
       ".", ".", ".", "\n", "\n" >>

ExpectedWin == << "Y", "o", "u", " ", "w", "i", "n", "!" >>

ExpectedFull == ExpectedFirst \o ExpectedWin \o << "\n" >>

IsPrefix(s, t) == Len(s) <= Len(t) /\ s = SubSeq(t, 1, Len(s))

\* How many times the text w occurs in s.
Occurrences(w, s) ==
    Cardinality({ k \in 1 .. Len(s) :
                    k + Len(w) - 1 <= Len(s) /\ SubSeq(s, k, k + Len(w) - 1) = w })

\* The last sample taken by waitpad saw START down.
Observed == BitAnd(lastKeys, J_START) # 0

\* The two values of the execution state of the contract.
ExecState == IF pc \in { "printf1", "waitpad" } THEN "awaiting-input" ELSE "completed"

\* A step of the program (the player's steps change joypad, the program's do not).
ProgramStep == joypad' = joypad

PcOrder(p) ==
    CASE p = "printf1" -> 1
      [] p = "waitpad" -> 2
      [] p = "printf2" -> 3
      [] p = "return"  -> 4
      [] p = "done"    -> 5

(* ------------------------------ claims --------------------------------- *)

\* C1: while the program is in the wait (the first printf has completed and
\* waitpad has not returned), the output surface holds exactly
\* "Press 'start'...\n\n" and nothing else.
C1_InitialOutput == pc = "waitpad" => out = ExpectedFirst

C1_Witness ==
    pc = "waitpad" /\ nsamples >= 2 /\ ~StartHeld /\ joypad # 0 /\ out = ExpectedFirst

\* C2: in every execution in which START is never down, the program never
\* leaves the wait and never emits any character of "You win!"; the output
\* stays a prefix of the first message, and becomes and then remains exactly
\* "Press 'start'...\n\n" forever.
C2_Blocking ==
    [](~StartHeld) =>
        /\ [](pc \in { "printf1", "waitpad" } /\ IsPrefix(out, ExpectedFirst))
        /\ <>[](pc = "waitpad" /\ out = ExpectedFirst)

C2_Witness ==
    pc = "waitpad" /\ nsamples = MaxSamples /\ ~Observed /\ ~earlyPress
       /\ ~StartHeld /\ out = ExpectedFirst

\* C3: "You win!" is on the output only if a sample of the wait saw START
\* down, it occurs at most once and exactly once after main has returned, the
\* wait is never re-entered once left, and once START has been observed the
\* text is eventually emitted.
C3_SingleTrigger ==
    /\ [](Occurrences(ExpectedWin, out) >= 1 => Observed)
    /\ [](Occurrences(ExpectedWin, out) <= 1)
    /\ [](pc = "done" => Occurrences(ExpectedWin, out) = 1)
    /\ [][pc' = "waitpad" => pc \in { "printf1", "waitpad" }]_vars
    /\ [][pc = "done" => nsamples' = nsamples /\ out' = out]_vars
    /\ ((Observed /\ pc # "waitpad") ~> (Occurrences(ExpectedWin, out) = 1))

C3_Witness ==
    pc = "done" /\ Observed /\ ~StartHeld /\ Occurrences(ExpectedWin, out) = 1

\* C4: the steps happen in the order first message, wait, second message,
\* return: no sample is taken before the whole first message is out, and no
\* character beyond the first message is out before the wait has completed.
C4_Ordering ==
    /\ [](nsamples >= 1 => IsPrefix(ExpectedFirst, out))
    /\ [](pc = "printf1" => nsamples = 0 /\ IsPrefix(out, ExpectedFirst)
                             /\ Len(out) < Len(ExpectedFirst))
    /\ [](Len(out) > Len(ExpectedFirst) => pc \in { "printf2", "return", "done" }
                                           /\ nsamples >= 1 /\ Observed)
    /\ [](pc \in { "return", "done" } => out = ExpectedFull)
    /\ [][PcOrder(pc) <= PcOrder(pc') /\ PcOrder(pc') <= PcOrder(pc) + 1]_vars

C4_Witness ==
    pc = "printf2" /\ Len(out) = Len(ExpectedFirst) + 3 /\ nsamples = 2

\* C5: when the samples of the wait are [no press, no press, start-press],
\* the complete output at the completed state is exactly
\* "Press 'start'...\n\nYou win!\n".
C5_EndToEnd ==
    (pc = "done" /\ nsamples = 3) => (out = ExpectedFull /\ Observed)

C5_Witness ==
    pc = "done" /\ nsamples = 3 /\ ~earlyPress /\ out = ExpectedFull

\* C6: the execution state starts as awaiting-input; its only transition is
\* awaiting-input to completed, taken by a sample that sees START down; after
\* main has returned nothing changes the execution state or the output.
C6_StateMachine ==
    /\ ExecState = "awaiting-input"
    /\ [][ExecState' # ExecState =>
            /\ ExecState = "awaiting-input"
            /\ ExecState' = "completed"
            /\ StartHeld
            /\ ProgramStep]_vars
    /\ [][ExecState = "completed" => ExecState' = "completed"]_vars
    /\ [][pc = "done" => pc' = "done" /\ out' = out]_vars

C6_Witness ==
    pc = "done" /\ StartHeld /\ joypad # lastKeys /\ out = ExpectedFull

\* C7: when the program keeps being scheduled, a sample of the wait that
\* sees START down leads to the end of the wait, to "You win!" on the output
\* and to the return of main.
C7_Liveness ==
    Observed ~> (pc = "done" /\ out = ExpectedFull)

C7_Witness ==
    pc = "done" /\ Observed /\ out = ExpectedFull /\ nsamples = MaxSamples

\* C8: a sample of the wait ends the wait exactly when START is down in the
\* sampled key state, whatever the other buttons are.
C8_StartOnly ==
    [][(pc = "waitpad" /\ ProgramStep) =>
          (pc' = (IF BitAnd(joypad, J_START) # 0 THEN "printf2" ELSE "waitpad"))]_vars

C8_Witness ==
    /\ pc = "printf2"
    /\ nsamples = 2
    /\ lastKeys = J_START + 64 + 16 + 1

\* C9: the wait is level-triggered.  When START is down from the start of
\* the program on, the first sample ends the wait and the output is the first
\* message followed by "You win!\n"; a first sample taken with START up does
\* not end the wait, also when START was pressed and released while the first
\* printf was running.
C9_LevelTriggered ==
    /\ []StartHeld =>
          /\ [](nsamples <= 1 /\ IsPrefix(out, ExpectedFull))
          /\ [](nsamples = 1 => pc \in { "printf2", "return", "done" })
          /\ <>(pc = "done" /\ out = ExpectedFull /\ nsamples = 1)
    /\ [][(pc = "waitpad" /\ nsamples = 0 /\ ProgramStep /\ ~StartHeld) =>
            (pc' = "waitpad" /\ out' = ExpectedFirst /\ ~Observed')]_vars

C9_Witness ==
    pc = "waitpad" /\ nsamples = 1 /\ earlyPress /\ ~Observed /\ out = ExpectedFirst

\* C10: the output is always a prefix of "Press 'start'...\n\nYou win!\n" and
\* every step leaves it unchanged or extends it.
C10_AppendOnly ==
    /\ [](IsPrefix(out, ExpectedFull))
    /\ [][IsPrefix(out, out')]_vars

C10_Witness ==
    pc = "printf2" /\ Len(out) = Len(ExpectedFirst) + 4 /\ ~StartHeld

====
